---- MODULE Spec2Model ----
\* Model of FamilyModel (src/main.py): the in-memory list of person
\* records, its add/update/delete operations with reciprocal link fix-up,
\* and persistence through save().
EXTENDS Integers, Sequences, FiniteSets, TLC

\* ---------------------------------------------------------------
\* Bounds
\* ---------------------------------------------------------------

\* largest id the store may allocate / arguments may mention
MaxId == 2
\* longest id list passed as a relationship argument
MaxArgLen == 2

ArgIds == 1..MaxId

\* relationship arguments: any list (duplicates allowed) of ids
ArgLists == UNION {[1..n -> ArgIds] : n \in 0..MaxArgLen}

\* relationship lists of at most one id
ShortLists == {l \in ArgLists : Len(l) <= 1}

\* ---------------------------------------------------------------
\* Helpers on lists
\* ---------------------------------------------------------------

\* Python "x in s"
InSeq(x, s) == \E k \in DOMAIN s : s[k] = x

\* Python list.remove(x): removes the first occurrence only
RemoveFirst(s, x) ==
    LET k == CHOOSE j \in DOMAIN s : s[j] = x /\ \A m \in 1..(j-1) : s[m] # x
    IN  SubSeq(s, 1, k - 1) \o SubSeq(s, k + 1, Len(s))

IdsOf(ps) == {ps[k].id : k \in DOMAIN ps}

\* generate_id without the "+ 1"
generate_id_max(ps) ==
    IF ps = <<>> THEN 0
    ELSE CHOOSE m \in IdsOf(ps) : \A o \in IdsOf(ps) : o <= m

\* FamilyModel.generate_id: max(ids, default=0) + 1
generate_id(ps) ==
    IF ps = <<>> THEN 1
    ELSE (CHOOSE m \in IdsOf(ps) : \A o \in IdsOf(ps) : o <= m) + 1

\* FamilyModel.get: index of the first record with that id, 0 for None
get(ps, x) ==
    IF \E k \in DOMAIN ps : ps[k].id = x
    THEN CHOOSE k \in DOMAIN ps : ps[k].id = x /\ \A m \in 1..(k-1) : ps[m].id # x
    ELSE 0

\* ids in increasing order
RECURSIVE SortedSeq(_)
SortedSeq(S) ==
    IF S = {} THEN <<>>
    ELSE LET m == CHOOSE e \in S : \A o \in S : e <= o
         IN  <<m>> \o SortedSeq(S \ {m})

\* ---------------------------------------------------------------
\* List objects
\* The records hold their padres / hijos lists by reference: add_person and
\* update_person store the caller's list object itself, so one list object
\* may back several fields. A store st = [ps |-> values, al |-> objects]:
\* st.ps[k] is record k with its lists' values, st.al[k] names the list
\* objects its padres / hijos fields hold. Fields holding the same object
\* always show the same value.
\* ---------------------------------------------------------------

LiveObjs(al) == {al[k].padres : k \in DOMAIN al} \cup {al[k].hijos : k \in DOMAIN al}

\* a list object no field holds yet (names of held objects are 1..m)
NewObj(st, k) == Cardinality(LiveObjs(st.al)) + k

\* current value of list object o; dflt for a list no field holds (a list of
\* the caller's, which nothing in FamilyModel mutates)
ObjVal(st, o, dflt) ==
    IF \E k \in DOMAIN st.al : st.al[k].padres = o
    THEN st.ps[CHOOSE k \in DOMAIN st.al : st.al[k].padres = o].padres
    ELSE IF \E k \in DOMAIN st.al : st.al[k].hijos = o
         THEN st.ps[CHOOSE k \in DOMAIN st.al : st.al[k].hijos = o].hijos
         ELSE dflt

\* in-place change of list object o to value v, seen through every field
\* that holds o
SetObj(st, o, v) ==
    [ps |-> [k \in DOMAIN st.ps |->
               [id     |-> st.ps[k].id,
                padres |-> IF st.al[k].padres = o THEN v ELSE st.ps[k].padres,
                hijos  |-> IF st.al[k].hijos = o THEN v ELSE st.ps[k].hijos]],
     al |-> st.al]

\* r[f].append(x) for record index j
AppendTo(st, j, f, x) == SetObj(st, st.al[j][f], Append(st.ps[j][f], x))

\* r[f].remove(x) for record index j
RemoveFrom(st, j, f, x) == SetObj(st, st.al[j][f], RemoveFirst(st.ps[j][f], x))

\* record i's field g := list object o (p["padres"] = new_parents)
SetField(st, i, g, o, v) ==
    LET val == ObjVal(st, o, v)
    IN  [ps |-> [k \in DOMAIN st.ps |->
                   IF k # i THEN st.ps[k]
                   ELSE [id     |-> st.ps[k].id,
                         padres |-> IF g = "padres" THEN val ELSE st.ps[k].padres,
                         hijos  |-> IF g = "hijos" THEN val ELSE st.ps[k].hijos]],
         al |-> [k \in DOMAIN st.al |->
                   IF k # i THEN st.al[k]
                   ELSE [padres |-> IF g = "padres" THEN o ELSE st.al[k].padres,
                         hijos  |-> IF g = "hijos" THEN o ELSE st.al[k].hijos]]]

\* object names in order of first appearance (records in order, padres
\* before hijos)
RECURSIVE FirstSeen(_, _, _)
FirstSeen(al, k, acc) ==
    IF k > Len(al) THEN acc
    ELSE LET a1 == IF InSeq(al[k].padres, acc) THEN acc ELSE Append(acc, al[k].padres)
             a2 == IF InSeq(al[k].hijos, a1) THEN a1 ELSE Append(a1, al[k].hijos)
         IN  FirstSeen(al, k + 1, a2)

\* renaming of list objects to 1..m by first appearance: object identity is
\* not observable, only which fields share an object
Canon(st) ==
    LET ord    == FirstSeen(st.al, 1, <<>>)
        idx(o) == CHOOSE m \in DOMAIN ord : ord[m] = o
    IN  [ps |-> st.ps,
         al |-> [k \in DOMAIN st.al |-> [padres |-> idx(st.al[k].padres),
                                          hijos  |-> idx(st.al[k].hijos)]]]

\* every field its own list object (json.load)
Unaliased(n) == [k \in 1..n |-> [padres |-> 2 * k - 1, hijos |-> 2 * k]]

\* for x in <record i's field g> (the live list, from index k on):
\*   r = get(x); if r and me not in r[f]: r[f].append(me)
RECURSIVE LinkAll(_, _, _, _, _, _)
LinkAll(st, me, i, g, k, f) ==
    IF k > Len(st.ps[i][g]) THEN st
    ELSE LET j   == get(st.ps, st.ps[i][g][k])
             st2 == IF j # 0 /\ ~InSeq(me, st.ps[j][f]) THEN AppendTo(st, j, f, me) ELSE st
         IN  LinkAll(st2, me, i, g, k + 1, f)

\* for old in olds (a copy): if old not in <list object no>: r = get(old);
\*   if r and me in r[f]: r[f].remove(me)
RECURSIVE UnlinkOld(_, _, _, _, _, _)
UnlinkOld(st, me, olds, no, nv, f) ==
    IF olds = <<>> THEN st
    ELSE LET old == Head(olds)
             j   == get(st.ps, old)
             st2 == IF ~InSeq(old, ObjVal(st, no, nv)) /\ j # 0 /\ InSeq(me, st.ps[j][f])
                    THEN RemoveFrom(st, j, f, me)
                    ELSE st
         IN  UnlinkOld(st2, me, Tail(olds), no, nv, f)

\* ---------------------------------------------------------------
\* Operations on a store (without the final save)
\* An argument list is a = [obj |-> list object, val |-> its value]; an
\* optional keyword argument also has given (FALSE for None / absent).
\* ---------------------------------------------------------------

\* FamilyModel.add_person; "parents or []" gives a new list for an empty one
add_person(st, pa, ch) ==
    LET newId == generate_id(st.ps)
        pv    == ObjVal(st, pa.obj, pa.val)
        cv    == ObjVal(st, ch.obj, ch.val)
        po    == IF pv = <<>> THEN NewObj(st, 3) ELSE pa.obj
        co    == IF cv = <<>> THEN NewObj(st, 4) ELSE ch.obj
        st1   == [ps |-> Append(st.ps, [id |-> newId, padres |-> pv, hijos |-> cv]),
                  al |-> Append(st.al, [padres |-> po, hijos |-> co])]
        n     == Len(st1.ps)
        st2   == LinkAll(st1, newId, n, "padres", 1, "hijos")
    IN  LinkAll(st2, newId, n, "hijos", 1, "padres")

\* the padres part of FamilyModel.update_person
UpdatePadres(st, i, a) ==
    LET me  == st.ps[i].id
        st1 == UnlinkOld(st, me, st.ps[i].padres, a.obj, a.val, "hijos")
        st2 == SetField(st1, i, "padres", a.obj, a.val)
    IN  LinkAll(st2, me, i, "padres", 1, "hijos")

\* the hijos part of FamilyModel.update_person
UpdateHijos(st, i, a) ==
    LET me  == st.ps[i].id
        st1 == UnlinkOld(st, me, st.ps[i].hijos, a.obj, a.val, "padres")
        st2 == SetField(st1, i, "hijos", a.obj, a.val)
    IN  LinkAll(st2, me, i, "hijos", 1, "padres")

\* FamilyModel.update_person on an existing record index i
update_person(st, i, pad, hij) ==
    LET st1 == IF pad.given THEN UpdatePadres(st, i, pad) ELSE st
    IN  IF hij.given THEN UpdateHijos(st1, i, hij) ELSE st1

\* for other in self.people: remove x once from padres, then from hijos
RECURSIVE DeleteRefs(_, _, _)
DeleteRefs(st, x, k) ==
    IF k > Len(st.ps) THEN st
    ELSE LET st1 == IF InSeq(x, st.ps[k].padres) THEN RemoveFrom(st, k, "padres", x) ELSE st
             st2 == IF InSeq(x, st1.ps[k].hijos) THEN RemoveFrom(st1, k, "hijos", x) ELSE st1
         IN  DeleteRefs(st2, x, k + 1)

\* FamilyModel.delete_person on an existing id
delete_person(st, x) ==
    LET st1 == DeleteRefs(st, x, 1)
        idx == SortedSeq({k \in DOMAIN st1.ps : st1.ps[k].id # x})
    IN  [ps |-> [m \in DOMAIN idx |-> st1.ps[idx[m]]],
         al |-> [m \in DOMAIN idx |-> st1.al[idx[m]]]]

\* ---------------------------------------------------------------
\* State machine
\* ---------------------------------------------------------------

VARIABLES
    people,   \* FamilyModel.people (values of the list fields)
    alias,    \* the list objects held by each record's padres / hijos
    disk,     \* the data file: [ok |-> readable JSON, val |-> its list]
    deleted,  \* ids deleted so far in this load session (history)
    last,     \* the last call: operation, argument, result, pre-state
    lpc,      \* MainWindow.auto_layout: "idle", "loop" (while current), "done"
    levels,   \* auto_layout's levels dict, level lvl at index lvl + 1
    visited,  \* auto_layout's visited set
    current,  \* auto_layout's current list
    pos       \* node positions set by auto_layout: id -> [x, y, lvl]

storeVars == <<people, alias, disk, deleted, last>>

layoutVars == <<lpc, levels, visited, current, pos>>

vars == <<people, alias, disk, deleted, last, lpc, levels, visited, current, pos>>

St == [ps |-> people, al |-> alias]

NoArg == [given |-> FALSE, val |-> <<>>]

NoRec == [padres |-> <<>>, hijos |-> <<>>]

NoCall == [op |-> "none", id |-> 0, ret |-> 0, flag |-> FALSE, preGen |-> 1,
           pad |-> NoArg, hij |-> NoArg, preRec |-> NoRec, res |-> "ok", pre |-> <<>>]

\* a data file holding invalid JSON (truncated by open(.., "w") before a
\* failed write)
Unreadable == [ok |-> FALSE, val |-> <<>>]

LayoutIdle ==
    /\ lpc = "idle"
    /\ levels = <<>>
    /\ visited = {}
    /\ current = <<>>
    /\ pos = <<>>

\* FamilyModel.__init__ with no data file: load() gives []
Init ==
    /\ people = <<>>
    /\ alias = <<>>
    /\ disk = [ok |-> TRUE, val |-> <<>>]
    /\ deleted = {}
    /\ last = NoCall
    /\ LayoutIdle

\* FamilyModel.save: open(.., "w") truncates the file, json.dump writes the
\* values of the list. When it raises (ok = FALSE) the exception propagates
\* and the file is either untouched (open failed) or truncated / partly
\* written, i.e. unreadable.
save(ok) ==
    disk' \in IF ok THEN {[ok |-> TRUE, val |-> people']} ELSE {disk, Unreadable}

\* record of the call just made. How much is kept depends on the view:
\* "ids" (operation, returned id), "min" (also target, result, and the ids
\* deleted in the session), "upd" (target, result, update's arguments and
\* the target's former links in the fields passed), "io" (target, save's
\* outcome and the pre-call list)
Call(op, x, pad, hij, ret, flag, ok, mode) ==
    last' = [op |-> op, id |-> IF mode = "ids" THEN 0 ELSE x, ret |-> ret,
             flag |-> IF mode = "ids" THEN FALSE ELSE flag,
             preGen |-> generate_id(people),
             pad |-> IF mode = "upd" THEN [given |-> pad.given, val |-> pad.val] ELSE NoArg,
             hij |-> IF mode = "upd" THEN [given |-> hij.given, val |-> hij.val] ELSE NoArg,
             preRec |-> IF mode = "upd" /\ op = "update" /\ flag
                        THEN [padres |-> IF pad.given THEN people[get(people, x)].padres ELSE <<>>,
                              hijos  |-> IF hij.given THEN people[get(people, x)].hijos ELSE <<>>]
                        ELSE NoRec,
             res |-> IF ok THEN "ok" ELSE "error",
             pre |-> IF mode = "io" THEN people ELSE <<>>]

\* the list a caller passes: a new list with a value of Args, or (aliasing
\* "live") a list object some field already holds, passed again
ArgChoices(st, Args, k, aliasing) ==
    {[given |-> TRUE, obj |-> NewObj(st, k), val |-> l] : l \in Args}
      \cup (IF aliasing = "live"
            THEN {[given |-> TRUE, obj |-> o, val |-> ObjVal(st, o, <<>>)] : o \in LiveObjs(st.al)}
            ELSE {})

NoArgD == [given |-> FALSE, obj |-> 0, val |-> <<>>]

\* apply an operation's result to the state
Set(st) == LET c == Canon(st)
           IN  /\ people' = c.ps
               /\ alias' = c.al

\* FamilyModel.add_person(name, parents=..., children=...): returns the id of
\* the appended record; aliasing: "none" (new lists), "twice" (the same list
\* may be passed as both arguments) or "live" (also lists already held)
AddPerson(SaveOutcomes, mode, Args, aliasing) ==
    \E pa \in ArgChoices(St, Args, 1, aliasing), ok \in SaveOutcomes :
    \E ch \in ArgChoices(St, Args, 2, aliasing) \cup (IF aliasing # "none" THEN {pa} ELSE {}) :
        /\ generate_id(people) <= MaxId
        /\ Set(add_person(St, pa, ch))
        /\ save(ok)
        /\ Call("add", 0, NoArg, NoArg, people'[Len(people')].id, TRUE, ok, mode)
        /\ UNCHANGED deleted

\* FamilyModel.update_person(id_, padres=..., hijos=...); single: exactly one
\* of the two keyword arguments is passed
UpdatePerson(SaveOutcomes, mode, Args, single, aliasing) ==
    \E x \in ArgIds :
        IF get(people, x) = 0
        THEN \* "if not p: return False" -- no save
             /\ Call("update", x, NoArg, NoArg, 0, FALSE, TRUE, mode)
             /\ UNCHANGED <<people, alias, disk, deleted>>
        ELSE \E pad \in {NoArgD} \cup ArgChoices(St, Args, 1, aliasing), ok \in SaveOutcomes :
             \E hij \in {NoArgD} \cup ArgChoices(St, Args, 2, aliasing)
                        \cup (IF aliasing # "none" /\ pad.given THEN {pad} ELSE {}) :
             /\ single => pad.given # hij.given
             /\ Set(update_person(St, get(people, x), pad, hij))
             /\ save(ok)
             /\ Call("update", x, pad, hij, 0, TRUE, ok, mode)
             /\ UNCHANGED deleted

\* FamilyModel.delete_person(id_)
DeletePerson(SaveOutcomes, mode) ==
    \E x \in ArgIds :
        IF get(people, x) = 0
        THEN /\ Call("delete", x, NoArg, NoArg, 0, FALSE, TRUE, mode)
             /\ UNCHANGED <<people, alias, disk, deleted>>
        ELSE \E ok \in SaveOutcomes :
             /\ Set(delete_person(St, x))
             /\ save(ok)
             /\ Call("delete", x, NoArg, NoArg, 0, TRUE, ok, mode)
             /\ deleted' = IF mode = "min" THEN deleted \cup {x} ELSE deleted

\* FamilyModel.load (also run by MainWindow.reload_scene): the file's list,
\* each field a new list object, starts a new session; on invalid JSON
\* json.load raises before self.people is assigned
Load(mode) ==
    /\ IF disk.ok
       THEN /\ people' = disk.val
            /\ alias' = Unaliased(Len(disk.val))
            /\ deleted' = {}
            /\ Call("load", 0, NoArg, NoArg, 0, FALSE, TRUE, mode)
       ELSE /\ UNCHANGED <<people, alias, deleted>>
            /\ Call("load", 0, NoArg, NoArg, 0, FALSE, FALSE, mode)
    /\ UNCHANGED disk

\* FamilyModel.save called on its own (MainWindow.save_positions, the
\* add-child menu; update_person(id_) without padres/hijos does the same):
\* writes the in-memory list, or raises leaving the file as save(FALSE) does
SaveOnly(SaveOutcomes, mode) ==
    \E ok \in SaveOutcomes :
        /\ UNCHANGED <<people, alias, deleted>>
        /\ save(ok)
        /\ Call("save", 0, NoArg, NoArg, 0, FALSE, ok, mode)

\* save() always succeeds
Next ==
    /\ UNCHANGED layoutVars
    /\ \/ AddPerson({TRUE}, "min", ArgLists, "none")
       \/ UpdatePerson({TRUE}, "min", ArgLists, TRUE, "none")
       \/ DeletePerson({TRUE}, "min")
       \/ Load("min")

Spec == Init /\ [][Next]_vars

\* as Next with update_person called with one keyword argument, remembering
\* its arguments
NextUpd ==
    /\ UNCHANGED layoutVars
    /\ \/ AddPerson({TRUE}, "upd", {<<>>}, "none")
       \/ UpdatePerson({TRUE}, "upd", ArgLists, TRUE, "none")
       \/ DeletePerson({TRUE}, "upd")
       \/ Load("upd")

SpecUpd == Init /\ [][NextUpd]_vars

\* as Next with new relationship lists of length <= 1 and one keyword
\* argument per update_person call (as the repository's callers pass them),
\* remembering only the ids handed out
NextIds ==
    /\ UNCHANGED layoutVars
    /\ \/ AddPerson({TRUE}, "ids", ShortLists, "none")
       \/ UpdatePerson({TRUE}, "ids", ShortLists, TRUE, "none")
       \/ DeletePerson({TRUE}, "ids")
       \/ Load("ids")

SpecIds == Init /\ [][NextIds]_vars

\* as Next with relationship lists of length <= 1, one keyword argument per
\* update_person call, and callers that may pass a list object a record
\* already holds (or the same list as both arguments)
NextAlias ==
    /\ UNCHANGED layoutVars
    /\ \/ AddPerson({TRUE}, "min", ShortLists, "live")
       \/ UpdatePerson({TRUE}, "min", ShortLists, TRUE, "live")
       \/ DeletePerson({TRUE}, "min")
       \/ Load("min")

SpecAlias == Init /\ [][NextAlias]_vars

\* save() may raise (unwritable data file, or a write failing after the
\* truncating open); add_person with relationship lists of length <= 1,
\* update_person clearing one of the two lists, and save() called on its own
NextIO ==
    /\ UNCHANGED layoutVars
    /\ \/ AddPerson(BOOLEAN, "io", ShortLists, "none")
       \/ UpdatePerson(BOOLEAN, "io", {<<>>}, TRUE, "none")
       \/ DeletePerson(BOOLEAN, "io")
       \/ Load("io")
       \/ SaveOnly(BOOLEAN, "io")

SpecIO == Init /\ [][NextIO]_vars

\* ---------------------------------------------------------------
\* MainWindow.auto_layout
\* ---------------------------------------------------------------

\* most records in a layout snapshot
MaxPeople == 2

\* y_gap / x_gap of auto_layout
YGap == 200
XGap == 200

\* a snapshot of n records with ids 1..n; hijos may name any of them (cycles,
\* self-links, links not mirrored in padres) and the id n + 1, which names no
\* record; auto_layout reads padres only through its emptiness
Snapshots(n) ==
    {[k \in 1..n |-> [id |-> k, padres |-> pa[k], hijos |-> SortedSeq(hi[k])]] :
        pa \in [1..n -> {<<>>} \cup {<<x>> : x \in 1..n}],
        hi \in [1..n -> SUBSET (1..(n + 1))]}

\* id_to_children.get(nid, [])
ChildrenOf(ps, nid) == IF get(ps, nid) = 0 THEN <<>> ELSE ps[get(ps, nid)].hijos

\* roots = ids without padres, or every id when there is none
Roots(ps) ==
    LET noParents == SelectSeq(ps, LAMBDA r : r.padres = <<>>)
        all       == [k \in DOMAIN ps |-> ps[k].id]
    IN  IF noParents = <<>> THEN all
        ELSE [k \in DOMAIN noParents |-> noParents[k].id]

\* inner loop over the children of one nid
RECURSIVE ScanChildren(_, _, _)
ScanChildren(cs, vis, nxt) ==
    IF cs = <<>> THEN nxt
    ELSE LET c == Head(cs)
         IN  ScanChildren(Tail(cs), vis,
                          IF c \notin vis /\ ~InSeq(c, nxt) THEN Append(nxt, c) ELSE nxt)

\* the loop without "visited.add(nid)"
ExpandLevel_novisit(ps, cur, vis, nxt) ==
    LET RECURSIVE Go(_, _)
        Go(c, n) == IF c = <<>> THEN n
                    ELSE Go(Tail(c), ScanChildren(ChildrenOf(ps, Head(c)), vis, n))
    IN  [vis |-> vis, nxt |-> Go(cur, nxt)]

\* for nid in current: visited.add(nid); scan its children
\* result: [vis |-> visited, nxt |-> next_level]
RECURSIVE ExpandLevel(_, _, _, _)
ExpandLevel(ps, cur, vis, nxt) ==
    IF cur = <<>> THEN [vis |-> vis, nxt |-> nxt]
    ELSE LET nid  == Head(cur)
             vis2 == vis \cup {nid}
         IN  ExpandLevel(ps, Tail(cur), vis2, ScanChildren(ChildrenOf(ps, nid), vis2, nxt))

\* node.setPos(x, y) for nid of level lvl at index i (0-based) of n; the
\* level that set the position is kept alongside
Place(pp, nid, i, n, lvl) ==
    (nid :> [x |-> ((2 * i - (n - 1)) * XGap) \div 2, y |-> lvl * YGap, lvl |-> lvl]) @@ pp

\* for lvl, ids in levels.items(): for i, nid in enumerate(ids):
\*   node = node_map.get(nid); if node: node.setPos(...)
RECURSIVE PlaceIds(_, _, _, _, _, _)
PlaceIds(ps, pp, ids, i, n, lvl) ==
    IF i >= n THEN pp
    ELSE PlaceIds(ps, IF get(ps, ids[i + 1]) # 0 THEN Place(pp, ids[i + 1], i, n, lvl) ELSE pp,
                  ids, i + 1, n, lvl)

RECURSIVE PlaceLevels(_, _, _, _)
PlaceLevels(ps, pp, lvls, lvl) ==
    IF lvl >= Len(lvls) THEN pp
    ELSE PlaceLevels(ps, PlaceIds(ps, pp, lvls[lvl + 1], 0, Len(lvls[lvl + 1]), lvl),
                     lvls, lvl + 1)

\* auto_layout up to the while loop
LayoutStart ==
    /\ lpc = "idle"
    /\ lpc' = "loop"
    /\ levels' = <<>>
    /\ visited' = {}
    /\ current' = Roots(people)
    /\ UNCHANGED <<pos>>
    /\ UNCHANGED storeVars

\* cap on the number of loop iterations explored: more levels than ids plus
\* the dangling child id plus one cannot occur in a terminating run, so a
\* run that reaches the cap without finishing shows non-termination
MaxLevels == MaxPeople + 3

\* one iteration of "while current"
LayoutLevel ==
    /\ lpc = "loop"
    /\ current # <<>>
    /\ Len(levels) < MaxLevels
    /\ LET r == ExpandLevel(people, current, visited, <<>>)
       IN  /\ levels' = Append(levels, current)
           /\ visited' = r.vis
           /\ current' = r.nxt
    /\ UNCHANGED <<lpc, pos>>
    /\ UNCHANGED storeVars

\* loop exit and position assignment
LayoutAssign ==
    /\ lpc = "loop"
    /\ current = <<>>
    /\ lpc' = "done"
    /\ pos' = PlaceLevels(people, pos, levels, 0)
    /\ UNCHANGED <<levels, visited, current>>
    /\ UNCHANGED storeVars

InitLayout ==
    /\ \E n \in 0..MaxPeople : people \in Snapshots(n)
    /\ alias = Unaliased(Len(people))
    /\ disk = [ok |-> TRUE, val |-> people]
    /\ deleted = {}
    /\ last = NoCall
    /\ LayoutIdle

NextLayout == LayoutStart \/ LayoutLevel \/ LayoutAssign

SpecLayout == InitLayout /\ [][NextLayout]_vars
\* ---------------------------------------------------------------
\* Properties
\* ---------------------------------------------------------------

NoDups(sq) == \A j, k \in DOMAIN sq : j # k => sq[j] # sq[k]

\* C1: for every pair of records a, b in the store, b is in a's hijos
\* exactly when a is in b's padres (reciprocity, I1).
C1_Reciprocity ==
    \A a, b \in DOMAIN people :
        InSeq(people[b].id, people[a].hijos) <=> InSeq(people[a].id, people[b].padres)

\* C2: every id in any record's padres or hijos names a record in the store
\* (no dangling references, I2).
C2_NoDangling ==
    \A k \in DOMAIN people :
        \A x \in ArgIds :
            (InSeq(x, people[k].padres) \/ InSeq(x, people[k].hijos)) => get(people, x) # 0

\* C3: add_person never returns the id of a person deleted earlier in the
\* session (ids are not reused, I3).
C3_NoIdReuse ==
    last.op = "add" => last.ret \notin deleted

\* C4: generate_id() exceeds every id in the store, the store's ids are
\* pairwise distinct, and add_person returns the value generate_id() had
\* just before the call (so 1 then 2 on an empty store).
C4_IdMonotonic ==
    /\ \A k \in DOMAIN people : people[k].id < generate_id(people)
    /\ \A j, k \in DOMAIN people : j # k => people[j].id # people[k].id
    /\ last.op = "add" => last.ret = last.preGen

C4_Witness ==
    /\ last.op = "add"
    /\ last.ret = 2
    /\ Len(people) = 2

\* C5: right after delete_person(id) returns True, no record's padres or
\* hijos contains id and get(id) is None.
C5_DeleteComplete ==
    (last.op = "delete" /\ last.flag) =>
        /\ get(people, last.id) = 0
        /\ \A k \in DOMAIN people :
               ~InSeq(last.id, people[k].padres) /\ ~InSeq(last.id, people[k].hijos)

\* C6: right after update_person(id, padres=S) returns True the record's
\* padres is S, no former parent outside S still has id in its hijos, and
\* every existing parent in S has id in its hijos; symmetrically for hijos=S.
C6_UpdateReplace ==
    (last.op = "update" /\ last.flag) =>
        LET me == last.id
            i  == get(people, me)
        IN  /\ last.pad.given =>
                  /\ people[i].padres = last.pad.val
                  /\ \A k \in DOMAIN last.preRec.padres :
                        LET o == last.preRec.padres[k]
                        IN  (~InSeq(o, last.pad.val) /\ get(people, o) # 0)
                                => ~InSeq(me, people[get(people, o)].hijos)
                  /\ \A k \in DOMAIN last.pad.val :
                        get(people, last.pad.val[k]) # 0
                           => InSeq(me, people[get(people, last.pad.val[k])].hijos)
            /\ last.hij.given =>
                  /\ people[i].hijos = last.hij.val
                  /\ \A k \in DOMAIN last.preRec.hijos :
                        LET o == last.preRec.hijos[k]
                        IN  (~InSeq(o, last.hij.val) /\ get(people, o) # 0)
                                => ~InSeq(me, people[get(people, o)].padres)
                  /\ \A k \in DOMAIN last.hij.val :
                        get(people, last.hij.val[k]) # 0
                           => InSeq(me, people[get(people, last.hij.val[k])].padres)

\* C7: when save() fails the in-memory list equals its pre-call value, and
\* after a successful mutating call the file holds the in-memory list.
C7_FailureAtomic ==
    /\ last.res = "error" => people = last.pre
    /\ (last.res = "ok" /\ last.flag) => disk = [ok |-> TRUE, val |-> people]

\* C8: no record's padres or hijos lists the same id twice.
C8_NoDuplicates ==
    \A k \in DOMAIN people : NoDups(people[k].padres) /\ NoDups(people[k].hijos)

\* C9: after auto_layout every id is in exactly one level.
C9_LevelUnique ==
    lpc = "done" =>
        \A a, b \in DOMAIN levels :
            a # b => \A k \in DOMAIN levels[a] : ~InSeq(levels[a][k], levels[b])

\* C10: after auto_layout, for each level the members whose final position
\* was set by that level have mean x equal to 0 and y equal to lvl * 200.
C10_Centering ==
    lpc = "done" =>
        \A l \in DOMAIN levels :
            LET lvl == l - 1
                M   == {levels[l][k] : k \in {j \in DOMAIN levels[l] :
                          levels[l][j] \in DOMAIN pos /\ pos[levels[l][j]].lvl = lvl}}
                Mq  == SortedSeq(M)
                RECURSIVE SumX(_)
                SumX(q) == IF q = <<>> THEN 0 ELSE pos[Head(q)].x + SumX(Tail(q))
            IN  /\ SumX(Mq) = 0
                /\ \A m \in M : pos[m].y = lvl * YGap

\* C11: auto_layout's level loop terminates for any snapshot (cycles, the
\* all-roots fallback, child ids naming no record): it never still has a
\* non-empty current after MaxLevels iterations, so LayoutAssign is reached.
C11_LayoutTerminates ==
    ~(lpc = "loop" /\ current # <<>> /\ Len(levels) >= MaxLevels)

C11_Witness ==
    /\ lpc = "done"
    /\ Len(people) = 2
    /\ \A k \in DOMAIN people : people[k].padres # <<>>
    /\ Len(levels) >= 2

====
